---- MODULE Spec2Model ----
(***************************************************************************)
(* A model of the cosan router: the radix-tree matcher                     *)
(* (pkg/cosan/radix.go), the router's dispatch pipeline (router.go,        *)
(* hooks.go), the context pool (pool.go) and the locking of concurrent     *)
(* calls.  Strings are sequences of one-character strings, so that         *)
(* TrimPrefix, HasPrefix, Index and slicing are computed as the code       *)
(* computes them.                                                          *)
(***************************************************************************)
EXTENDS Integers, Sequences, FiniteSets, TLC

VARIABLES
    nodes,        \* the heap of radixNode objects, addressed by index
    trees,        \* radixMatcher.trees : method -> root node (0 is nil)
    mCompiled,    \* radixMatcher.compiled
    routes,       \* router.routes
    middleware,   \* router.middleware
    errorHandler, \* router.hooks.errorHandler (0 is nil)
    rCompiled,    \* router.compiled
    regs,         \* history: the routes whose matcher Register returned nil
    last,         \* history: the last operation, its inputs and its outcome
    prev,         \* history: the matcher as it was before the last operation
    ctxs,         \* the heap of context objects, addressed by index
    idle,         \* contextPool: the contexts Put and not yet taken by Get
    held,         \* the context each request holds (0 is none)
    pc,           \* where each request stands between acquire and release
    dirtied,      \* history: <<i, q>> when request q stored data in context
                  \* i the last time it held it
    mu,           \* router.mu and radixMatcher.mu: readers and writer of each
    procs,        \* the goroutines calling the router: position and locals
    compileCalls, \* history: the number of calls of radixMatcher.Compile
    nmaps         \* the number of parameter maps made by Match

vars == <<nodes, trees, mCompiled, routes, middleware, errorHandler,
          rCompiled, regs, last, prev, ctxs, idle, held, pc, dirtied,
          mu, procs, compileCalls, nmaps>>

matcherVars == <<nodes, trees, mCompiled>>
routerVars == <<routes, middleware, errorHandler, rCompiled>>
poolVars == <<ctxs, idle, held, pc, dirtied>>
concVars == <<mu, procs, compileCalls, nmaps>>

-----------------------------------------------------------------------------
(* Bounds of the model *)

MaxRoutes == 3
MaxPathLen == 4
MaxMiddleware == 2
MaxServeRoutes == 2
MaxBuildRoutes == 2
MaxContexts == 2
MaxJobs == 2
MaxShapeRoutes == 3

-----------------------------------------------------------------------------
(* Strings *)

\* strings.TrimPrefix(s, "/")
TrimSlash(s) == IF Len(s) > 0 /\ s[1] = "/" THEN Tail(s) ELSE s

\* strings.HasPrefix(s, p)
HasPrefix(s, p) == Len(p) <= Len(s) /\ SubSeq(s, 1, Len(p)) = p

\* strings.Index(s, "/"), 1-based; 0 when there is no slash
IndexSlash(s) ==
    IF \E i \in 1..Len(s) : s[i] = "/"
    THEN CHOOSE i \in 1..Len(s) : s[i] = "/" /\ \A j \in 1..(i-1) : s[j] # "/"
    ELSE 0

\* s[n:] with a 0-based n
From(s, n) == SubSeq(s, n + 1, Len(s))

splitPath(path) ==
    IF path = <<>> THEN [segment |-> <<>>, remaining |-> <<>>]
    ELSE LET i == IndexSlash(path) IN
         IF i = 0 THEN [segment |-> path, remaining |-> <<>>]
         ELSE [segment |-> SubSeq(path, 1, i - 1), remaining |-> From(path, i)]

-----------------------------------------------------------------------------
(* Errors, routes and nodes *)

NoErr == "nil"
ErrRouterAlreadyCompiled == "cosan: router already compiled, cannot register new routes"
ErrConflictingRoutes == "cosan: conflicting routes detected"

Methods == {"GET", "POST"}

\* the nil *route
NoRoute == [method |-> "", pattern |-> <<>>, handler |-> 0]

NewRoute(method, pattern, handler) ==
    [method |-> method, pattern |-> pattern, handler |-> handler]

staticNode == 0
paramNode == 1
wildcardNode == 2

StaticPriority == 100
ParamPriority == 50
WildcardPriority == 10

NewNode(path, nType, paramName, route, priority) ==
    [path |-> path, nType |-> nType, paramName |-> paramName, route |-> route,
     children |-> <<>>, wildcard |-> 0, priority |-> priority]

\* index of the first child of node n that satisfies Test, 0 when none
FirstChild(ns, n, Test(_)) ==
    LET cs == ns[n].children
        hits == {i \in 1..Len(cs) : Test(ns[cs[i]])}
    IN IF hits = {} THEN 0
       ELSE cs[CHOOSE i \in hits : \A j \in hits : i <= j]

-----------------------------------------------------------------------------
(* Insertion: each operator returns the error and the heap it leaves *)

RECURSIVE insertRoute(_, _, _, _)
RECURSIVE insertStatic(_, _, _, _, _)
RECURSIVE insertParam(_, _, _, _, _)

\* a variant that replaces the wildcard child a node already has
insertWildcard_replace(ns, n, paramName, r) ==
    LET w == Len(ns) + 1
        ns1 == Append(ns, NewNode(<<>>, wildcardNode, paramName, r, WildcardPriority))
    IN [err |-> NoErr, nodes |-> [ns1 EXCEPT ![n].wildcard = w]]

insertWildcard(ns, n, paramName, r) ==
    IF ns[n].wildcard # 0
    THEN [err |-> ErrConflictingRoutes, nodes |-> ns]
    ELSE LET w == Len(ns) + 1
             ns1 == Append(ns, NewNode(<<>>, wildcardNode, paramName, r, WildcardPriority))
         IN [err |-> NoErr, nodes |-> [ns1 EXCEPT ![n].wildcard = w]]

\* a variant that never looks for an existing child
insertStatic_alwaysNew(ns, n, segment, remaining, r) ==
    LET k == Len(ns) + 1
        ns1 == Append(ns, NewNode(segment, staticNode, <<>>, NoRoute, StaticPriority))
        ns2 == [ns1 EXCEPT ![n].children = Append(@, k)]
    IN insertRoute(ns2, k, remaining, r)

insertStatic(ns, n, segment, remaining, r) ==
    LET Hit(child) == child.nType = staticNode /\ HasPrefix(segment, child.path)
        c == FirstChild(ns, n, Hit)
    IN IF c # 0
       THEN IF Len(ns[c].path) = Len(segment)
            THEN insertRoute(ns, c, remaining, r)
            ELSE LET newSegment == From(segment, Len(ns[c].path))
                 IN insertRoute(ns, c, newSegment \o <<"/">> \o remaining, r)
       ELSE LET k == Len(ns) + 1
                ns1 == Append(ns, NewNode(segment, staticNode, <<>>, NoRoute, StaticPriority))
                ns2 == [ns1 EXCEPT ![n].children = Append(@, k)]
            IN insertRoute(ns2, k, remaining, r)

insertParam(ns, n, paramName, remaining, r) ==
    LET Hit(child) == child.nType = paramNode /\ child.paramName = paramName
        c == FirstChild(ns, n, Hit)
    IN IF c # 0
       THEN insertRoute(ns, c, remaining, r)
       ELSE LET k == Len(ns) + 1
                ns1 == Append(ns, NewNode(<<>>, paramNode, paramName, NoRoute, ParamPriority))
                ns2 == [ns1 EXCEPT ![n].children = Append(@, k)]
            IN insertRoute(ns2, k, remaining, r)

\* a variant that replaces the terminal route instead of rejecting it
insertRoute_overwrite(ns, n, pattern0, r) ==
    LET pattern == TrimSlash(pattern0) IN
    IF pattern = <<>>
    THEN [err |-> NoErr, nodes |-> [ns EXCEPT ![n].route = r]]
    ELSE LET sp == splitPath(pattern)
             segment == sp.segment
             remaining == sp.remaining
         IN IF HasPrefix(segment, <<":">>)
            THEN insertParam(ns, n, From(segment, 1), remaining, r)
            ELSE IF HasPrefix(segment, <<"*">>)
            THEN insertWildcard(ns, n, From(segment, 1), r)
            ELSE insertStatic(ns, n, segment, remaining, r)

insertRoute(ns, n, pattern0, r) ==
    LET pattern == TrimSlash(pattern0) IN
    IF pattern = <<>>
    THEN IF ns[n].route # NoRoute
         THEN [err |-> ErrConflictingRoutes, nodes |-> ns]
         ELSE [err |-> NoErr, nodes |-> [ns EXCEPT ![n].route = r]]
    ELSE LET sp == splitPath(pattern)
             segment == sp.segment
             remaining == sp.remaining
         IN IF HasPrefix(segment, <<":">>)
            THEN insertParam(ns, n, From(segment, 1), remaining, r)
            ELSE IF HasPrefix(segment, <<"*">>)
            THEN insertWildcard(ns, n, From(segment, 1), r)
            ELSE insertStatic(ns, n, segment, remaining, r)

\* radixMatcher.Register: the error, and the heap and the method map it leaves
MatcherRegisterBody(ns, ts, method, pattern, handler) ==
    LET r == NewRoute(method, pattern, handler)
        fresh == ts[method] = 0
        ns1 == IF fresh
               THEN Append(ns, NewNode(<<>>, staticNode, <<>>, NoRoute, 0))
               ELSE ns
        tree == IF fresh THEN Len(ns1) ELSE ts[method]
        ts1 == [ts EXCEPT ![method] = tree]
        res == insertRoute(ns1, tree, pattern, r)
    IN [err |-> res.err, nodes |-> res.nodes, trees |-> ts1]

\* a variant without the compiled check
MatcherRegister_unguarded(ns, ts, comp, method, pattern, handler) ==
    MatcherRegisterBody(ns, ts, method, pattern, handler)

MatcherRegister(ns, ts, comp, method, pattern, handler) ==
    IF comp
    THEN [err |-> ErrRouterAlreadyCompiled, nodes |-> ns, trees |-> ts]
    ELSE MatcherRegisterBody(ns, ts, method, pattern, handler)

-----------------------------------------------------------------------------
(* Compile *)

Swap(cs, i, j) == [cs EXCEPT ![i] = cs[j], ![j] = cs[i]]

\* the two nested loops of sortByPriority over one children slice
RECURSIVE SortLoop(_, _, _, _)
SortLoop(ns, cs, i, j) ==
    IF i > Len(cs) THEN cs
    ELSE IF j > Len(cs) THEN SortLoop(ns, cs, i + 1, i + 2)
    ELSE IF ns[cs[j]].priority > ns[cs[i]].priority
         THEN SortLoop(ns, Swap(cs, i, j), i, j + 1)
         ELSE SortLoop(ns, cs, i, j + 1)

RECURSIVE sortChildrenOf(_, _, _)
RECURSIVE sortByPriority(_, _)

\* the loop "for _, child := range node.children { sortByPriority(child) }"
sortChildrenOf(ns, cs, k) ==
    IF k > Len(cs) THEN ns
    ELSE sortChildrenOf(sortByPriority(ns, cs[k]), cs, k + 1)

sortByPriority(ns, n) ==
    IF n = 0 THEN ns
    ELSE LET sorted == SortLoop(ns, ns[n].children, 1, 2)
             ns1 == [ns EXCEPT ![n].children = sorted]
         IN sortChildrenOf(ns1, sorted, 1)

\* radixMatcher.Compile: the heap it leaves (the flag is set by the action)
RECURSIVE SortTrees(_, _, _)
SortTrees(ns, ts, ms) ==
    IF ms = {} THEN ns
    ELSE LET m == CHOOSE x \in ms : TRUE
         IN SortTrees(sortByPriority(ns, ts[m]), ts, ms \ {m})

\* a sort that also swaps children of equal priority
RECURSIVE SortLoop_swapEqual(_, _, _, _)
SortLoop_swapEqual(ns, cs, i, j) ==
    IF i > Len(cs) THEN cs
    ELSE IF j > Len(cs) THEN SortLoop_swapEqual(ns, cs, i + 1, i + 2)
    ELSE IF ns[cs[j]].priority >= ns[cs[i]].priority
         THEN SortLoop_swapEqual(ns, Swap(cs, i, j), i, j + 1)
         ELSE SortLoop_swapEqual(ns, cs, i, j + 1)

\* a Compile without the compiled check, which sorts the root of the GET
\* tree again on every call
MatcherCompile_resort(ns, ts, comp) ==
    IF ts["GET"] = 0 THEN ns
    ELSE [ns EXCEPT ![ts["GET"]].children = SortLoop_swapEqual(ns, @, 1, 2)]

MatcherCompile(ns, ts, comp) ==
    IF comp THEN ns ELSE SortTrees(ns, ts, {m \in Methods : ts[m] # 0})

-----------------------------------------------------------------------------
(* Match.  A parameter map is a set of <<name, value>> pairs with at most  *)
(* one pair for each name.                                                 *)

NoParams == {}

SetParam(params, name, value) ==
    {pr \in params : pr[1] # name} \cup {<<name, value>>}

DeleteParam(params, name) == {pr \in params : pr[1] # name}

RECURSIVE search(_, _, _, _)
RECURSIVE searchStatic(_, _, _, _, _)
RECURSIVE searchParam(_, _, _, _, _)

\* the wildcard step of search, reached when no child gave a route
searchWildcard(ns, n, path, params) ==
    IF ns[n].wildcard # 0
    THEN [route |-> ns[ns[n].wildcard].route,
          params |-> SetParam(params, ns[ns[n].wildcard].paramName, path)]
    ELSE [route |-> NoRoute, params |-> params]

\* a second loop that lets a parameter take an empty segment
searchParam_emptySegment(ns, n, path, params, k) ==
    LET cs == ns[n].children IN
    IF k > Len(cs) THEN searchWildcard(ns, n, path, params)
    ELSE LET child == ns[cs[k]]
             sp == splitPath(path)
         IN IF child.nType = paramNode
            THEN LET res == search(ns, cs[k], sp.remaining,
                                   SetParam(params, child.paramName, sp.segment))
                 IN IF res.route # NoRoute THEN res
                    ELSE searchParam(ns, n, path,
                                     DeleteParam(res.params, child.paramName), k + 1)
            ELSE searchParam(ns, n, path, params, k + 1)

\* the second loop of search, from child index k on
searchParam(ns, n, path, params, k) ==
    LET cs == ns[n].children IN
    IF k > Len(cs) THEN searchWildcard(ns, n, path, params)
    ELSE LET child == ns[cs[k]]
             sp == splitPath(path)
         IN IF child.nType = paramNode /\ sp.segment # <<>>
            THEN LET res == search(ns, cs[k], sp.remaining,
                                   SetParam(params, child.paramName, sp.segment))
                 IN IF res.route # NoRoute THEN res
                    ELSE searchParam(ns, n, path,
                                     DeleteParam(res.params, child.paramName), k + 1)
            ELSE searchParam(ns, n, path, params, k + 1)

\* a first loop that follows a static child whenever its label starts the
\* path, whatever comes after the label
searchStatic_anyPrefix(ns, n, path, params, k) ==
    LET cs == ns[n].children IN
    IF k > Len(cs) THEN searchParam(ns, n, path, params, 1)
    ELSE LET child == ns[cs[k]]
             remaining == From(path, Len(child.path))
         IN IF child.nType = staticNode /\ HasPrefix(path, child.path)
            THEN LET res == search(ns, cs[k], TrimSlash(remaining), params)
                 IN IF res.route # NoRoute THEN res
                    ELSE searchStatic(ns, n, path, res.params, k + 1)
            ELSE searchStatic(ns, n, path, params, k + 1)

\* the first loop of search, from child index k on
searchStatic(ns, n, path, params, k) ==
    LET cs == ns[n].children IN
    IF k > Len(cs) THEN searchParam(ns, n, path, params, 1)
    ELSE LET child == ns[cs[k]]
             remaining == From(path, Len(child.path))
         IN IF /\ child.nType = staticNode
               /\ HasPrefix(path, child.path)
               /\ (remaining = <<>> \/ remaining[1] = "/")
            THEN LET res == search(ns, cs[k], TrimSlash(remaining), params)
                 IN IF res.route # NoRoute THEN res
                    ELSE searchStatic(ns, n, path, res.params, k + 1)
            ELSE searchStatic(ns, n, path, params, k + 1)

search(ns, n, path, params) ==
    IF path = <<>> THEN [route |-> ns[n].route, params |-> params]
    ELSE searchStatic(ns, n, path, params, 1)

\* recursive calls that go on with what follows a static label without
\* taking its leading slash away
searchCalls_noTrim(ns, n, path) ==
    LET cs == ns[n].children
        sp == splitPath(path)
    IN IF path = <<>> THEN {}
       ELSE {[node |-> cs[k], path |-> From(path, Len(ns[cs[k]].path))] :
                k \in {i \in 1..Len(cs) :
                          /\ ns[cs[i]].nType = staticNode
                          /\ HasPrefix(path, ns[cs[i]].path)
                          /\ LET remaining == From(path, Len(ns[cs[i]].path))
                             IN remaining = <<>> \/ remaining[1] = "/"}}
            \cup
            {[node |-> cs[k], path |-> sp.remaining] :
                k \in {i \in 1..Len(cs) :
                          ns[cs[i]].nType = paramNode /\ sp.segment # <<>>}}

\* the recursive calls search(node n, path) can make: the child and the
\* remaining path of each
searchCalls(ns, n, path) ==
    LET cs == ns[n].children
        sp == splitPath(path)
    IN IF path = <<>> THEN {}
       ELSE {[node |-> cs[k],
              path |-> TrimSlash(From(path, Len(ns[cs[k]].path)))] :
                k \in {i \in 1..Len(cs) :
                          /\ ns[cs[i]].nType = staticNode
                          /\ HasPrefix(path, ns[cs[i]].path)
                          /\ LET remaining == From(path, Len(ns[cs[i]].path))
                             IN remaining = <<>> \/ remaining[1] = "/"}}
            \cup
            {[node |-> cs[k], path |-> sp.remaining] :
                k \in {i \in 1..Len(cs) :
                          ns[cs[i]].nType = paramNode /\ sp.segment # <<>>}}

NotFound == [found |-> FALSE, route |-> NoRoute, params |-> NoParams]

\* a Match that looks every method up in the GET tree
MatchIn_anyMethod(ns, ts, method, path) ==
    IF ts["GET"] = 0 THEN NotFound
    ELSE LET res == search(ns, ts["GET"], TrimSlash(path), NoParams)
         IN IF res.route # NoRoute
            THEN [found |-> TRUE, route |-> res.route, params |-> res.params]
            ELSE NotFound

\* radixMatcher.Match
MatchIn(ns, ts, method, path) ==
    IF method \notin DOMAIN ts \/ ts[method] = 0 THEN NotFound
    ELSE LET res == search(ns, ts[method], TrimSlash(path), NoParams)
         IN IF res.route # NoRoute
            THEN [found |-> TRUE, route |-> res.route, params |-> res.params]
            ELSE NotFound

Match(method, path) == MatchIn(nodes, trees, method, path)

-----------------------------------------------------------------------------
(* The router: handlers, middleware and the response writer *)

\* the response writer before anything is written
NoResp == [status |-> 0, body |-> <<>>, events |-> <<>>]

Handlers == {1, 2}

\* what each handler returns: handler 1 answers 200 and returns nil,
\* handler 2 returns an error and writes nothing
HandlerErr(h) == IF h = 1 THEN NoErr ELSE "boom"

\* a handler that panics instead of returning
PanicHandler == 3
HandlerPanic(h) == IF h = PanicHandler THEN "crash" ELSE NoErr

Middlewares == {1, 2, 3}

\* middleware 1 and 2 act before and after next and return its error;
\* middleware 3 answers by itself and never calls next
CallsNext(m) == m # 3

\* middleware.Recovery()
Recovery == 4

CustomErrorHandlers == {1}

StatusOK == 200
StatusNoContent == 204
StatusNotFound == 404
StatusTeapot == 418
StatusInternalServerError == 500

Ev(kind, id, text) == [kind |-> kind, id |-> id, text |-> text]

\* http.ResponseWriter: the first WriteHeader wins, Write appends
WriteHeader(w, code) == IF w.status = 0 THEN [w EXCEPT !.status = code] ELSE w
Write(w, piece) == [w EXCEPT !.body = Append(@, piece)]
Log(w, e) == [w EXCEPT !.events = Append(@, e)]

\* http.Error(w, text, code)
HttpError(w, text, code) ==
    Write(Write(WriteHeader(Log(w, Ev("http.Error", code, text)), code), text), "\n")

\* http.NotFound(w, req)
HttpNotFound(w) == HttpError(w, "404 page not found", StatusNotFound)

\* a handler value: the route's handler wrapped by mws, outermost first
Leaf(h) == [mws |-> <<>>, handler |-> h]

\* Middleware.Process(next)
Process(m, next) == [next EXCEPT !.mws = <<m>> \o @]

\* the loop of ServeHTTP that wraps the handler, at index i (1-based)
RECURSIVE ApplyFrom(_, _, _)
ApplyFrom(mws, i, handler) ==
    IF i < 1 THEN handler
    ELSE ApplyFrom(mws, i - 1, Process(mws[i], handler))

\* a variant that wraps in registration order, the last registered outermost
RECURSIVE ApplyForward(_, _, _)
ApplyForward(mws, i, handler) ==
    IF i > Len(mws) THEN handler
    ELSE ApplyForward(mws, i + 1, Process(mws[i], handler))

ApplyMiddleware_forward(mws, handler) == ApplyForward(mws, 1, handler)

ApplyMiddleware(mws, handler) == ApplyFrom(mws, Len(mws), handler)

\* the route handler itself
InvokeLeaf(h, w) ==
    LET w1 == Log(w, Ev("handler", h, ""))
        e == HandlerErr(h)
    IN IF HandlerPanic(h) # NoErr
       THEN [w |-> w1, err |-> NoErr, panic |-> HandlerPanic(h)]
       ELSE IF e = NoErr
       THEN [w |-> Write(WriteHeader(w1, StatusOK), "ok"), err |-> NoErr,
             panic |-> NoErr]
       ELSE [w |-> w1, err |-> e, panic |-> NoErr]

\* a middleware stack in which no deferred function recovers
Unwind_none(m, inner) == inner

\* what middleware m leaves when next(ctx) panicked: Recovery's deferred
\* function recovers, writes the 500 response and lets the call return nil;
\* through any other middleware the panic goes on
Unwind(m, inner) ==
    IF m = Recovery
    THEN [w |-> Write(WriteHeader(Log(inner.w, Ev("recover", m, inner.panic)),
                                  StatusInternalServerError),
                      inner.panic),
          err |-> NoErr, panic |-> NoErr]
    ELSE inner

RECURSIVE Invoke(_, _)

\* a chain in which a middleware that does not call next is followed by the
\* rest of the chain all the same
Invoke_through(handler, w) ==
    IF handler.mws = <<>>
    THEN InvokeLeaf(handler.handler, w)
    ELSE LET m == Head(handler.mws)
             w1 == Log(w, Ev("enter", m, ""))
             inner == Invoke([handler EXCEPT !.mws = Tail(@)], w1)
         IN IF inner.panic # NoErr
            THEN Unwind(m, inner)
            ELSE [w |-> Log(inner.w, Ev("exit", m, "")), err |-> inner.err,
                  panic |-> NoErr]

\* handler(ctx): the response writer it leaves, the error it returns and
\* the panic it ends with
Invoke(handler, w) ==
    IF handler.mws = <<>>
    THEN InvokeLeaf(handler.handler, w)
    ELSE LET m == Head(handler.mws)
             w1 == Log(w, Ev("enter", m, ""))
         IN IF CallsNext(m)
            THEN LET inner == Invoke([handler EXCEPT !.mws = Tail(@)], w1)
                 IN IF inner.panic # NoErr
                    THEN Unwind(m, inner)
                    ELSE [w |-> Log(inner.w, Ev("exit", m, "")),
                          err |-> inner.err, panic |-> NoErr]
            ELSE [w |-> Log(WriteHeader(w1, StatusNoContent), Ev("exit", m, "")),
                  err |-> NoErr, panic |-> NoErr]

\* router.handleError(ctx, err)
handleError(eh, w, err) ==
    IF eh # 0
    THEN Write(WriteHeader(Log(w, Ev("errorHandler", eh, err)), StatusTeapot), err)
    ELSE Write(Write(WriteHeader(Log(w, Ev("defaultError", 0, err)),
                                 StatusInternalServerError),
                     "Internal Server Error: "), err)

\* a variant of the error branch that drops the error
ServeError_silent(eh, w, err) == w

\* the error branch of ServeHTTP
ServeError(eh, w, err) == HttpError(w, err, StatusInternalServerError)

\* a ServeHTTP that sends an unmatched request through the middleware, with
\* http.NotFound as the innermost handler
Respond_chainFirst(m, mws, eh) ==
    LET h == IF m.found THEN m.route.handler ELSE 1
        run == Invoke(ApplyMiddleware(mws, Leaf(h)), NoResp)
    IN IF ~m.found
       THEN [match |-> m, w |-> HttpNotFound([run.w EXCEPT !.status = 0, !.body = <<>>]),
             err |-> NoErr, panic |-> NoErr, acquired |-> 0, released |-> 0]
       ELSE IF run.panic # NoErr
       THEN [match |-> m, w |-> run.w, err |-> NoErr, panic |-> run.panic,
             acquired |-> 0, released |-> 0]
       ELSE IF run.err # NoErr
       THEN [match |-> m, w |-> ServeError(eh, run.w, run.err), err |-> run.err,
             panic |-> NoErr, acquired |-> 0, released |-> 0]
       ELSE [match |-> m, w |-> run.w, err |-> NoErr,
             panic |-> NoErr, acquired |-> 0, released |-> 0]

\* router.ServeHTTP after the call of Match: the response writer and the
\* error of the composed handler
Respond(m, mws, eh) ==
    IF ~m.found
    THEN [match |-> m, w |-> HttpNotFound(NoResp), err |-> NoErr,
          panic |-> NoErr, acquired |-> 0, released |-> 0]
    ELSE \* the context is made by newContext(w, req, params): ServeHTTP
         \* calls neither acquireContext nor releaseContext
         LET handler == ApplyMiddleware(mws, Leaf(m.route.handler))
             run == Invoke(handler, NoResp)
         IN IF run.panic # NoErr
            THEN \* the panic leaves ServeHTTP, which has no deferred function
                 [match |-> m, w |-> run.w, err |-> NoErr, panic |-> run.panic,
                  acquired |-> 0, released |-> 0]
            ELSE IF run.err # NoErr
            THEN [match |-> m, w |-> ServeError(eh, run.w, run.err), err |-> run.err,
                  panic |-> NoErr, acquired |-> 0, released |-> 0]
            ELSE [match |-> m, w |-> run.w, err |-> NoErr,
                  panic |-> NoErr, acquired |-> 0, released |-> 0]

\* router.ServeHTTP after ensureCompiled
Serve(ns, ts, mws, eh, method, path) ==
    Respond(MatchIn(ns, ts, method, path), mws, eh)

-----------------------------------------------------------------------------
(* The context pool *)

\* the requests in flight; a request's number stands for its
\* http.ResponseWriter and its *http.Request (0 is nil)
Requests == {1, 2}

ParamKeys == {"id"}
ValueKeys == {"key"}

\* contextPool.New
NewContext == [req |-> 0, res |-> 0, params |-> {}, values |-> {}]

\* a Get that leaves the object in the pool
PoolGet_shared(pool, i) == pool

\* contextPool.Get() taking the pooled object i
PoolGet(pool, i) == pool \ {i}

\* contextPool.Put(ctx)
PoolPut(pool, i) == pool \cup {i}

\* a binding that sets the response writer only
BindContext_noRequest(cs, i, w, r) == [cs EXCEPT ![i].res = w]

\* acquireContext after Get: ctx.req = r; ctx.res = w
BindContext(cs, i, w, r) == [cs EXCEPT ![i].req = r, ![i].res = w]

\* a release that leaves the value map as it is
ClearContext_keepValues(cs, i) ==
    [cs EXCEPT ![i].params = {}, ![i].req = 0, ![i].res = 0]

\* releaseContext before Put: every key of both maps deleted, req and res nil
ClearContext(cs, i) ==
    [cs EXCEPT ![i].params = {}, ![i].values = {}, ![i].req = 0, ![i].res = 0]

-----------------------------------------------------------------------------
(* sync.RWMutex, and the goroutines that call the router *)

NoLock == [readers |-> {}, writer |-> 0]

CanRLock(l) == l.writer = 0
CanLock(l) == l.writer = 0 /\ l.readers = {}
RLock(l, p) == [l EXCEPT !.readers = @ \cup {p}]
RUnlock(l, p) == [l EXCEPT !.readers = @ \ {p}]
Lock(l, p) == [l EXCEPT !.writer = p]
Unlock(l, p) == [l EXCEPT !.writer = 0]

Procs == {1, 2}

\* a goroutine that is not inside a call
NoProc ==
    [pc |-> "idle", kind |-> "none", method |-> "", path |-> <<>>, handler |-> 0,
     jobs |-> 0, startedCompiled |-> FALSE, slow |-> FALSE,
     match |-> NotFound, map |-> 0, err |-> NoErr, resp |-> NoResp]

-----------------------------------------------------------------------------
(* Inputs *)

\* the patterns Register is called with
Patterns ==
    { <<"/">>,
      <<"/", "a">>,
      <<"/", "a", "b">>,
      <<"/", "a", "/", "b">>,
      <<"/", "a", "/", ":", "x">>,
      <<"/", "a", "b", "/", ":", "x">>,
      <<"/", ":", "x">>,
      <<"/", ":", "x", "/", "b">>,
      <<"/", "*", "w">>,
      <<"/", "a", "/", "*", "w">>,
      <<"/", "a", "b", "/", "*", "w">> }

PathChars == {"a", "b", "/"}

RECURSIVE StringsUpTo(_)
StringsUpTo(n) ==
    IF n = 0 THEN {<<>>}
    ELSE LET shorter == StringsUpTo(n - 1)
         IN shorter \cup {Append(s, c) : s \in {t \in shorter : Len(t) = n - 1}, c \in PathChars}

\* the request paths Match is called with
Paths == {<<"/">> \o s : s \in StringsUpTo(MaxPathLen)}

-----------------------------------------------------------------------------
(* The matcher used on its own *)

Op(op, method, path, handler, err) ==
    [op |-> op, method |-> method, path |-> path, handler |-> handler,
     err |-> err, found |-> FALSE, route |-> NoRoute, params |-> NoParams,
     resp |-> NoResp, req |-> 0, ctx |-> 0, acquired |-> 0, released |-> 0,
     panic |-> NoErr]

\* the matcher's state, kept as prev by every action
Snapshot == [nodes |-> nodes, trees |-> trees, compiled |-> mCompiled]

Init ==
    /\ nodes = <<>>
    /\ trees = [m \in Methods |-> 0]
    /\ mCompiled = FALSE
    /\ routes = <<>>
    /\ middleware = <<>>
    /\ errorHandler = 0
    /\ rCompiled = FALSE
    /\ regs = <<>>
    /\ last = Op("New", "", <<>>, 0, NoErr)
    /\ prev = [nodes |-> <<>>, trees |-> [m \in Methods |-> 0], compiled |-> FALSE]
    /\ ctxs = <<>>
    /\ idle = {}
    /\ held = [q \in Requests |-> 0]
    /\ pc = [q \in Requests |-> "none"]
    /\ dirtied = {}
    /\ mu = [r |-> NoLock, m |-> NoLock]
    /\ procs = [p \in Procs |-> NoProc]
    /\ compileCalls = 0
    /\ nmaps = 0

\* m.Register(method, pattern, handler), each call with a handler of its own;
\* at most max registrations succeed
RegisterUpTo(method, pattern, max) ==
    LET handler == Len(regs) + 1
        res == MatcherRegister(nodes, trees, mCompiled, method, pattern, handler)
    IN /\ res.err # NoErr \/ Len(regs) < max
       /\ nodes' = res.nodes
       /\ trees' = res.trees
       /\ regs' = IF res.err = NoErr
                  THEN Append(regs, NewRoute(method, pattern, handler))
                  ELSE regs
       /\ last' = Op("Register", method, pattern, handler, res.err)
       /\ prev' = Snapshot
       /\ UNCHANGED <<poolVars, concVars>>
       /\ UNCHANGED <<mCompiled, routerVars>>

Register(method, pattern) == RegisterUpTo(method, pattern, MaxRoutes)

\* m.Compile()
Compile ==
    /\ nodes' = MatcherCompile(nodes, trees, mCompiled)
    /\ mCompiled' = TRUE
    /\ last' = Op("Compile", "", <<>>, 0, NoErr)
    /\ prev' = Snapshot
    /\ UNCHANGED <<poolVars, concVars>>
    /\ UNCHANGED <<trees, regs, routerVars>>

\* a Match that sorts the children of the trees it walks
MatchCall_sorting(method, path) ==
    LET m == Match(method, path)
    IN /\ nodes' = SortTrees(nodes, trees, {x \in Methods : trees[x] # 0})
       /\ last' = [Op("Match", method, path, 0, NoErr) EXCEPT
                       !.found = m.found, !.route = m.route, !.params = m.params]
       /\ prev' = Snapshot
       /\ UNCHANGED <<poolVars, concVars>>
       /\ UNCHANGED <<trees, mCompiled, regs, routerVars>>

\* m.Match(method, path)
MatchCall(method, path) ==
    LET m == Match(method, path)
    IN /\ last' = [Op("Match", method, path, 0, NoErr) EXCEPT
                       !.found = m.found, !.route = m.route, !.params = m.params]
       /\ prev' = Snapshot
       /\ UNCHANGED <<poolVars, concVars>>
       /\ UNCHANGED <<matcherVars, regs, routerVars>>

NextMatcher ==
    \/ \E method \in Methods, pattern \in Patterns : Register(method, pattern)
    \/ Compile

SpecMatcher == Init /\ [][NextMatcher]_vars

\* the build phase on fewer patterns, for the claims about rejected calls
BuildPatterns ==
    { <<"/">>,
      <<"/", "a">>,
      <<"/", "a", "b">>,
      <<"/", "a", "/", ":", "x">>,
      <<"/", "*", "w">> }

RegisterBuild(method, pattern) == RegisterUpTo(method, pattern, MaxBuildRoutes)

NextBuild ==
    \/ \E method \in Methods, pattern \in BuildPatterns : RegisterBuild(method, pattern)
    \/ Compile

SpecBuild == Init /\ [][NextBuild]_vars

-----------------------------------------------------------------------------
(* The context pool used by concurrent requests *)

PoolOp(op, q, i, acq, rel) ==
    [Op(op, "", <<>>, 0, NoErr) EXCEPT
        !.req = q, !.ctx = i, !.acquired = acq, !.released = rel]

\* acquireContext, first half: ctx := contextPool.Get(), which gives a pooled
\* object or a new one
AcquireGet(q) ==
    /\ pc[q] = "none"
    /\ \/ \E i \in idle :
             /\ idle' = PoolGet(idle, i)
             /\ held' = [held EXCEPT ![q] = i]
             /\ ctxs' = ctxs
             /\ last' = PoolOp("Get", q, i, 0, 0)
       \/ /\ Len(ctxs) < MaxContexts
          /\ ctxs' = Append(ctxs, NewContext)
          /\ held' = [held EXCEPT ![q] = Len(ctxs) + 1]
          /\ idle' = idle
          /\ last' = PoolOp("Get", q, Len(ctxs) + 1, 0, 0)
    /\ pc' = [pc EXCEPT ![q] = "got"]
    /\ prev' = Snapshot
    /\ UNCHANGED <<matcherVars, routerVars, concVars, regs, dirtied>>

\* acquireContext, second half: the fields are set and the context returned
AcquireBind(q) ==
    /\ pc[q] = "got"
    /\ ctxs' = BindContext(ctxs, held[q], q, q)
    /\ pc' = [pc EXCEPT ![q] = "bound"]
    /\ dirtied' = dirtied \ {<<held[q], q>>}
    /\ last' = PoolOp("acquireContext", q, held[q], 1, 0)
    /\ prev' = Snapshot
    /\ UNCHANGED <<matcherVars, routerVars, concVars, regs, idle, held>>

\* the request stores a parameter in its context: ctx.params[k] = v
StoreParam(q, k) ==
    /\ pc[q] \in {"bound", "used"}
    /\ ctxs' = [ctxs EXCEPT ![held[q]].params = SetParam(@, k, q)]
    /\ pc' = [pc EXCEPT ![q] = "used"]
    /\ dirtied' = dirtied \cup {<<held[q], q>>}
    /\ last' = PoolOp("StoreParam", q, held[q], 0, 0)
    /\ prev' = Snapshot
    /\ UNCHANGED <<matcherVars, routerVars, concVars, regs, idle, held>>

\* the request stores a value in its context: ctx.values[k] = v
StoreValue(q, k) ==
    /\ pc[q] \in {"bound", "used"}
    /\ ctxs' = [ctxs EXCEPT ![held[q]].values = SetParam(@, k, q)]
    /\ pc' = [pc EXCEPT ![q] = "used"]
    /\ dirtied' = dirtied \cup {<<held[q], q>>}
    /\ last' = PoolOp("StoreValue", q, held[q], 0, 0)
    /\ prev' = Snapshot
    /\ UNCHANGED <<matcherVars, routerVars, concVars, regs, idle, held>>

\* releaseContext, first half: the maps are emptied and the fields reset
ReleaseClear(q) ==
    /\ pc[q] \in {"bound", "used"}
    /\ ctxs' = ClearContext(ctxs, held[q])
    /\ pc' = [pc EXCEPT ![q] = "cleared"]
    /\ last' = PoolOp("Clear", q, held[q], 0, 0)
    /\ prev' = Snapshot
    /\ UNCHANGED <<matcherVars, routerVars, concVars, regs, idle, held, dirtied>>

\* releaseContext, second half: contextPool.Put(ctx)
ReleasePut(q) ==
    /\ pc[q] = "cleared"
    /\ idle' = PoolPut(idle, held[q])
    /\ held' = [held EXCEPT ![q] = 0]
    /\ pc' = [pc EXCEPT ![q] = "none"]
    /\ last' = PoolOp("releaseContext", q, held[q], 0, 1)
    /\ prev' = Snapshot
    /\ UNCHANGED <<matcherVars, routerVars, concVars, regs, ctxs, dirtied>>

\* sync.Pool may drop a pooled object at any time
PoolDrop(i) ==
    /\ i \in idle
    /\ idle' = idle \ {i}
    /\ last' = PoolOp("Drop", 0, i, 0, 0)
    /\ prev' = Snapshot
    /\ UNCHANGED <<matcherVars, routerVars, concVars, regs, ctxs, held, pc, dirtied>>

NextPool ==
    \/ \E q \in Requests : AcquireGet(q)
    \/ \E q \in Requests : AcquireBind(q)
    \/ \E q \in Requests, k \in ParamKeys : StoreParam(q, k)
    \/ \E q \in Requests, k \in ValueKeys : StoreValue(q, k)
    \/ \E q \in Requests : ReleaseClear(q)
    \/ \E q \in Requests : ReleasePut(q)
    \/ \E i \in 1..MaxContexts : PoolDrop(i)

SpecPool == Init /\ [][NextPool]_vars

-----------------------------------------------------------------------------
(* The router *)

RouterMethods == {"GET"}

ServePatterns ==
    { <<"/", "a">>,
      <<"/", "a", "b">>,
      <<"/", "*", "w">>,
      <<"/", "*", "v">> }

ServePaths ==
    { <<"/">>,
      <<"/", "a">>,
      <<"/", "a", "b">>,
      <<"/", "a", "/", "b">>,
      <<"/", "b", "/", "a">> }

PanicCompiledRoute == "cosan: cannot register routes after router is compiled"
PanicDuplicate == "cosan: duplicate route registration"
PanicRegister == "cosan: failed to register route"
PanicCompiledUse == "cosan: cannot add middleware after router is compiled"

\* the body of router.registerRoute, run with r.mu held; err records the panic
registerRouteBody(rs, ns, ts, rc, mc, method, pattern, handler) ==
    IF rc
    THEN [err |-> PanicCompiledRoute, routes |-> rs, nodes |-> ns, trees |-> ts]
    ELSE IF \E i \in 1..Len(rs) : rs[i].method = method /\ rs[i].pattern = pattern
    THEN [err |-> PanicDuplicate, routes |-> rs, nodes |-> ns, trees |-> ts]
    ELSE LET rt == NewRoute(method, pattern, handler)
             res == MatcherRegister(ns, ts, mc, method, pattern, handler)
         IN [err |-> IF res.err = NoErr THEN NoErr ELSE PanicRegister,
             routes |-> Append(rs, rt), nodes |-> res.nodes, trees |-> res.trees]

\* router.registerRoute(method, pattern, handler)
registerRoute(method, pattern, handler) ==
    LET res == registerRouteBody(routes, nodes, trees, rCompiled, mCompiled,
                                 method, pattern, handler)
    IN /\ Len(res.routes) <= MaxServeRoutes
       /\ routes' = res.routes
       /\ nodes' = res.nodes
       /\ trees' = res.trees
       /\ regs' = IF res.err = NoErr
                  THEN Append(regs, NewRoute(method, pattern, handler))
                  ELSE regs
       /\ last' = Op("registerRoute", method, pattern, handler, res.err)
       /\ prev' = Snapshot
       /\ UNCHANGED <<poolVars, concVars>>
       /\ UNCHANGED <<mCompiled, middleware, errorHandler, rCompiled>>

\* a Use that does not look at r.compiled
Use_afterCompile(m) ==
    /\ Len(middleware) < MaxMiddleware
    /\ \A i \in 1..Len(middleware) : middleware[i] # m
    /\ middleware' = Append(middleware, m)
    /\ last' = Op("Use", "", <<>>, m, NoErr)
    /\ prev' = Snapshot
    /\ UNCHANGED <<poolVars, concVars>>
    /\ UNCHANGED <<matcherVars, routes, errorHandler, rCompiled, regs>>

\* router.Use(m); err records the panic
Use(m) ==
    IF rCompiled
    THEN /\ last' = Op("Use", "", <<>>, m, PanicCompiledUse)
         /\ prev' = Snapshot
         /\ UNCHANGED <<poolVars, concVars>>
         /\ UNCHANGED <<matcherVars, routerVars, regs>>
    ELSE /\ Len(middleware) < MaxMiddleware
         /\ \A i \in 1..Len(middleware) : middleware[i] # m
         /\ middleware' = Append(middleware, m)
         /\ last' = Op("Use", "", <<>>, m, NoErr)
         /\ prev' = Snapshot
         /\ UNCHANGED <<poolVars, concVars>>
         /\ UNCHANGED <<matcherVars, routes, errorHandler, rCompiled, regs>>

\* router.SetErrorHandler(handler)
SetErrorHandler(eh) ==
    /\ errorHandler' = eh
    /\ last' = Op("SetErrorHandler", "", <<>>, eh, NoErr)
    /\ prev' = Snapshot
    /\ UNCHANGED <<poolVars, concVars>>
    /\ UNCHANGED <<matcherVars, routes, middleware, rCompiled, regs>>

\* router.ensureCompiled() followed by the rest of router.ServeHTTP
ServeHTTP(method, path) ==
    LET ns == IF rCompiled THEN nodes ELSE MatcherCompile(nodes, trees, mCompiled)
        out == Serve(ns, trees, middleware, errorHandler, method, path)
    IN /\ nodes' = ns
       /\ mCompiled' = (rCompiled => mCompiled)
       /\ rCompiled' = TRUE
       /\ last' = [Op("ServeHTTP", method, path, 0, out.err) EXCEPT
                       !.found = out.match.found, !.route = out.match.route,
                       !.params = out.match.params, !.resp = out.w,
                       !.acquired = out.acquired, !.released = out.released,
                       !.panic = out.panic]
       /\ prev' = Snapshot
       /\ UNCHANGED <<poolVars, concVars>>
       /\ UNCHANGED <<trees, routes, middleware, errorHandler, regs>>

Next ==
    \/ \E method \in RouterMethods, pattern \in ServePatterns, handler \in Handlers :
          registerRoute(method, pattern, handler)
    \/ \E m \in Middlewares : Use(m)
    \/ \E eh \in CustomErrorHandlers : SetErrorHandler(eh)
    \/ \E method \in Methods, path \in ServePaths : ServeHTTP(method, path)

Spec == Init /\ [][Next]_vars

-----------------------------------------------------------------------------
(* The router called from several goroutines *)

ConcPatterns ==
    { <<"/", "a">>,
      <<"/", "a", "b">>,
      <<"/", ":", "x">> }

ConcPaths ==
    { <<"/", "a", "b">>,
      <<"/", "b">> }

\* ensureCompiled without its second check
IsCompiled_unchecked(c) == FALSE

\* ensureCompiled's second reading of r.compiled, under the write lock
IsCompiled(c) == c

\* a parameter map that is the one made by the call before
AllocMap_shared(n) == IF n = 0 THEN 1 ELSE n

\* params := make(map[string]string): the identity of the new map
AllocMap(n) == n + 1

At(p, where) == procs[p].pc = where
Goto(p, where) == procs' = [procs EXCEPT ![p].pc = where]

concFrame == UNCHANGED <<poolVars, last, prev, middleware, errorHandler>>

\* a goroutine calls ServeHTTP
StartServe(p, method, path) ==
    /\ procs[p].pc \in {"idle", "done"}
    /\ procs[p].jobs < MaxJobs
    /\ procs' = [procs EXCEPT ![p] =
                    [NoProc EXCEPT !.pc = "E1", !.kind = "serve",
                                   !.method = method, !.path = path,
                                   !.jobs = procs[p].jobs + 1,
                                   !.startedCompiled = rCompiled]]
    /\ concFrame
    /\ UNCHANGED <<matcherVars, routes, rCompiled, regs, mu, compileCalls, nmaps>>

\* ensureCompiled: r.mu.RLock()
EnsureRLock(p) ==
    /\ At(p, "E1")
    /\ CanRLock(mu.r)
    /\ mu' = [mu EXCEPT !.r = RLock(@, p)]
    /\ Goto(p, "E2")
    /\ concFrame
    /\ UNCHANGED <<matcherVars, routes, rCompiled, regs, compileCalls, nmaps>>

\* an ensureCompiled that keeps its read lock when the router is not compiled
EnsureCheck_keepRLock(p) ==
    /\ At(p, "E2")
    /\ mu' = IF rCompiled THEN [mu EXCEPT !.r = RUnlock(@, p)] ELSE mu
    /\ procs' = [procs EXCEPT ![p].pc = IF rCompiled THEN "M1" ELSE "E3",
                              ![p].slow = ~rCompiled]
    /\ concFrame
    /\ UNCHANGED <<matcherVars, routes, rCompiled, regs, compileCalls, nmaps>>

\* ensureCompiled: if r.compiled { RUnlock; return }; RUnlock
EnsureCheck(p) ==
    /\ At(p, "E2")
    /\ mu' = [mu EXCEPT !.r = RUnlock(@, p)]
    /\ procs' = [procs EXCEPT ![p].pc = IF rCompiled THEN "M1" ELSE "E3",
                              ![p].slow = ~rCompiled]
    /\ concFrame
    /\ UNCHANGED <<matcherVars, routes, rCompiled, regs, compileCalls, nmaps>>

\* ensureCompiled: r.mu.Lock()
EnsureLock(p) ==
    /\ At(p, "E3")
    /\ CanLock(mu.r)
    /\ mu' = [mu EXCEPT !.r = Lock(@, p)]
    /\ Goto(p, "E4")
    /\ concFrame
    /\ UNCHANGED <<matcherVars, routes, rCompiled, regs, compileCalls, nmaps>>

\* ensureCompiled: the second check; when compiled, the deferred Unlock runs
EnsureRecheck(p) ==
    /\ At(p, "E4")
    /\ IF IsCompiled(rCompiled)
       THEN /\ mu' = [mu EXCEPT !.r = Unlock(@, p)]
            /\ Goto(p, "M1")
       ELSE /\ mu' = mu
            /\ Goto(p, "C1")
    /\ concFrame
    /\ UNCHANGED <<matcherVars, routes, rCompiled, regs, compileCalls, nmaps>>

\* r.matcher.Compile() is called: m.mu.Lock()
CompileLock(p) ==
    /\ At(p, "C1")
    /\ CanLock(mu.m)
    /\ mu' = [mu EXCEPT !.m = Lock(@, p)]
    /\ compileCalls' = compileCalls + 1
    /\ Goto(p, "C2")
    /\ concFrame
    /\ UNCHANGED <<matcherVars, routes, rCompiled, regs, nmaps>>

\* the body of radixMatcher.Compile, and its deferred Unlock
CompileBody(p) ==
    /\ At(p, "C2")
    /\ nodes' = MatcherCompile(nodes, trees, mCompiled)
    /\ mCompiled' = TRUE
    /\ mu' = [mu EXCEPT !.m = Unlock(@, p)]
    /\ Goto(p, "E5")
    /\ concFrame
    /\ UNCHANGED <<trees, routes, rCompiled, regs, compileCalls, nmaps>>

\* ensureCompiled: r.compiled = true, and its deferred Unlock
EnsureMark(p) ==
    /\ At(p, "E5")
    /\ rCompiled' = TRUE
    /\ mu' = [mu EXCEPT !.r = Unlock(@, p)]
    /\ Goto(p, "M1")
    /\ concFrame
    /\ UNCHANGED <<matcherVars, routes, regs, compileCalls, nmaps>>

\* Match: m.mu.RLock()
MatchRLock(p) ==
    /\ At(p, "M1")
    /\ CanRLock(mu.m)
    /\ mu' = [mu EXCEPT !.m = RLock(@, p)]
    /\ Goto(p, "M2")
    /\ concFrame
    /\ UNCHANGED <<matcherVars, routes, rCompiled, regs, compileCalls, nmaps>>

\* Match: the tree is looked up, the parameter map made and the tree searched
MatchSearch(p) ==
    LET m == MatchIn(nodes, trees, procs[p].method, procs[p].path)
        made == trees[procs[p].method] # 0
    IN /\ At(p, "M2")
       /\ nmaps' = IF made THEN nmaps + 1 ELSE nmaps
       /\ procs' = [procs EXCEPT ![p].pc = "M3", ![p].match = m,
                                 ![p].map = IF m.found THEN AllocMap(nmaps) ELSE 0]
       /\ concFrame
       /\ UNCHANGED <<matcherVars, routes, rCompiled, regs, mu, compileCalls>>

\* Match: the deferred m.mu.RUnlock()
MatchRUnlock(p) ==
    /\ At(p, "M3")
    /\ mu' = [mu EXCEPT !.m = RUnlock(@, p)]
    /\ Goto(p, "H")
    /\ concFrame
    /\ UNCHANGED <<matcherVars, routes, rCompiled, regs, compileCalls, nmaps>>

\* ServeHTTP after Match: 404, or the composed handler and its error
Handle(p) ==
    LET out == Respond(procs[p].match, middleware, errorHandler)
    IN /\ At(p, "H")
       /\ procs' = [procs EXCEPT ![p].pc = "done", ![p].err = out.err,
                                 ![p].resp = out.w]
       /\ concFrame
       /\ UNCHANGED <<matcherVars, routes, rCompiled, regs, mu, compileCalls, nmaps>>

\* a goroutine calls registerRoute; each goroutine registers a handler of
\* its own
StartRegister(p, method, pattern) ==
    /\ procs[p].pc \in {"idle", "done"}
    /\ procs[p].jobs < MaxJobs
    /\ procs' = [procs EXCEPT ![p] =
                    [NoProc EXCEPT !.pc = "G1", !.kind = "register",
                                   !.method = method, !.path = pattern,
                                   !.handler = p,
                                   !.jobs = procs[p].jobs + 1,
                                   !.startedCompiled = rCompiled]]
    /\ concFrame
    /\ UNCHANGED <<matcherVars, routes, rCompiled, regs, mu, compileCalls, nmaps>>

\* registerRoute: r.mu.Lock()
RegisterLock(p) ==
    /\ At(p, "G1")
    /\ CanLock(mu.r)
    /\ mu' = [mu EXCEPT !.r = Lock(@, p)]
    /\ Goto(p, "G2")
    /\ concFrame
    /\ UNCHANGED <<matcherVars, routes, rCompiled, regs, compileCalls, nmaps>>

\* registerRoute: the body, with the matcher's Register under m.mu
RegisterBody(p) ==
    LET res == registerRouteBody(routes, nodes, trees, rCompiled, mCompiled,
                                 procs[p].method, procs[p].path, procs[p].handler)
    IN /\ At(p, "G2")
       /\ CanLock(mu.m)
       /\ routes' = res.routes
       /\ nodes' = res.nodes
       /\ trees' = res.trees
       /\ regs' = IF res.err = NoErr
                  THEN Append(regs, NewRoute(procs[p].method, procs[p].path,
                                             procs[p].handler))
                  ELSE regs
       /\ procs' = [procs EXCEPT ![p].pc = "G3", ![p].err = res.err]
       /\ concFrame
       /\ UNCHANGED <<mCompiled, rCompiled, mu, compileCalls, nmaps>>

\* registerRoute: the deferred r.mu.Unlock(), which also runs on a panic
RegisterUnlock(p) ==
    /\ At(p, "G3")
    /\ mu' = [mu EXCEPT !.r = Unlock(@, p)]
    /\ Goto(p, "done")
    /\ concFrame
    /\ UNCHANGED <<matcherVars, routes, rCompiled, regs, compileCalls, nmaps>>

NextConc ==
    \/ \E p \in Procs, path \in ConcPaths : StartServe(p, "GET", path)
    \/ \E p \in Procs : EnsureRLock(p)
    \/ \E p \in Procs : EnsureCheck(p)
    \/ \E p \in Procs : EnsureLock(p)
    \/ \E p \in Procs : EnsureRecheck(p)
    \/ \E p \in Procs : CompileLock(p)
    \/ \E p \in Procs : CompileBody(p)
    \/ \E p \in Procs : EnsureMark(p)
    \/ \E p \in Procs : MatchRLock(p)
    \/ \E p \in Procs : MatchSearch(p)
    \/ \E p \in Procs : MatchRUnlock(p)
    \/ \E p \in Procs : Handle(p)
    \/ \E p \in Procs, pattern \in ConcPatterns : StartRegister(p, "GET", pattern)
    \/ \E p \in Procs : RegisterLock(p)
    \/ \E p \in Procs : RegisterBody(p)
    \/ \E p \in Procs : RegisterUnlock(p)

SpecConc == Init /\ [][NextConc]_vars

\* a goroutine calls Use
StartUse(p, m) ==
    /\ procs[p].pc \in {"idle", "done"}
    /\ procs[p].jobs < MaxJobs
    /\ procs' = [procs EXCEPT ![p] =
                    [NoProc EXCEPT !.pc = "U1", !.kind = "use", !.handler = m,
                                   !.jobs = procs[p].jobs + 1,
                                   !.startedCompiled = rCompiled]]
    /\ concFrame
    /\ UNCHANGED <<matcherVars, routes, rCompiled, regs, mu, compileCalls, nmaps>>

\* Use: r.mu.Lock()
UseLock(p) ==
    /\ At(p, "U1")
    /\ CanLock(mu.r)
    /\ mu' = [mu EXCEPT !.r = Lock(@, p)]
    /\ Goto(p, "U2")
    /\ concFrame
    /\ UNCHANGED <<matcherVars, routes, rCompiled, regs, compileCalls, nmaps>>

\* Use: the panic or the append, and the deferred r.mu.Unlock()
UseBody(p) ==
    /\ At(p, "U2")
    /\ middleware' = IF rCompiled THEN middleware
                     ELSE Append(middleware, procs[p].handler)
    /\ mu' = [mu EXCEPT !.r = Unlock(@, p)]
    /\ procs' = [procs EXCEPT ![p].pc = "done",
                              ![p].err = IF rCompiled THEN PanicCompiledUse ELSE NoErr]
    /\ UNCHANGED <<poolVars, last, prev, errorHandler>>
    /\ UNCHANGED <<matcherVars, routes, rCompiled, regs, compileCalls, nmaps>>

LockMiddlewares == {1}

NextLock ==
    \/ NextConc
    \/ \E p \in Procs, m \in LockMiddlewares : StartUse(p, m)
    \/ \E p \in Procs : UseLock(p)
    \/ \E p \in Procs : UseBody(p)

SpecLock == Init /\ [][NextLock]_vars

-----------------------------------------------------------------------------
(* What the claims mean by "a pattern matches a path": the pattern syntax  *)
(* of the interface, segment by segment, with no reference to the tree.    *)

IsParamSeg(seg) == HasPrefix(seg, <<":">>)
IsWildSeg(seg) == HasPrefix(seg, <<"*">>)

RECURSIVE PatternSegs(_)
PatternSegs(pat) ==
    IF pat = <<>> THEN <<>>
    ELSE LET sp == splitPath(pat) IN <<sp.segment>> \o PatternSegs(sp.remaining)

SegsOf(pattern) == PatternSegs(TrimSlash(pattern))

IsStaticPattern(pattern) ==
    \A i \in 1..Len(SegsOf(pattern)) :
        ~IsParamSeg(SegsOf(pattern)[i]) /\ ~IsWildSeg(SegsOf(pattern)[i])

\* the bindings with which the segments segs match the path rest, or Fail
Fail == {<<"fail">>}

RECURSIVE Bind(_, _)
Bind(segs, rest) ==
    IF segs = <<>> THEN (IF rest = <<>> THEN {} ELSE Fail)
    ELSE IF rest = <<>> THEN Fail
    ELSE IF IsWildSeg(Head(segs))
         THEN (IF Len(segs) = 1 THEN {<<From(Head(segs), 1), rest>>} ELSE Fail)
    ELSE LET sp == splitPath(rest)
             more == Bind(Tail(segs), sp.remaining)
         IN IF sp.segment = <<>> \/ more = Fail THEN Fail
            ELSE IF IsParamSeg(Head(segs))
                 THEN more \cup {<<From(Head(segs), 1), sp.segment>>}
            ELSE IF sp.segment = Head(segs) THEN more ELSE Fail

PatternBind(pattern, path) == Bind(SegsOf(pattern), TrimSlash(path))
PatternMatches(pattern, path) == PatternBind(pattern, path) # Fail

\* the rank of a pattern on a path: static before parameter before wildcard,
\* compared segment by segment from the left
Kind(seg) == IF IsWildSeg(seg) THEN 2 ELSE IF IsParamSeg(seg) THEN 1 ELSE 0

RECURSIVE KindsBefore(_, _)
KindsBefore(s, t) ==
    IF s = <<>> \/ t = <<>> THEN FALSE
    ELSE IF Kind(Head(s)) # Kind(Head(t)) THEN Kind(Head(s)) < Kind(Head(t))
    ELSE KindsBefore(Tail(s), Tail(t))

Outranks(p, q) == KindsBefore(SegsOf(p), SegsOf(q))

\* the registered routes of a method whose pattern matches the path
Candidates(method, path) ==
    {i \in 1..Len(regs) : regs[i].method = method /\ PatternMatches(regs[i].pattern, path)}

\* paths with no empty segment, but for one trailing slash
WellFormed(path) ==
    LET t == TrimSlash(path) IN
    /\ Len(path) > 0 /\ path[1] = "/"
    /\ (t = <<>> \/ t[1] # "/")
    /\ \A i \in 1..(Len(t) - 1) : ~(t[i] = "/" /\ t[i + 1] = "/")

WellFormedPaths == {p \in Paths : WellFormed(p)}

Found(r, params) == [found |-> TRUE, route |-> r, params |-> params]

-----------------------------------------------------------------------------
(* Claims *)

\* C1: after successful Register calls in any order and Compile, Match on the
\* exact path of every registered all-static pattern returns found, that
\* route and an empty parameter map, also when one static segment is a proper
\* prefix of another.
C1_StaticRouteMatchesItsPath ==
    mCompiled =>
        \A i \in 1..Len(regs) :
            IsStaticPattern(regs[i].pattern) =>
                Match(regs[i].method, regs[i].pattern) = Found(regs[i], NoParams)

\* the registered routes that match the path and are outranked by no other
Best(method, path) ==
    {i \in Candidates(method, path) :
        \A j \in Candidates(method, path) \ {i} :
            Outranks(regs[i].pattern, regs[j].pattern)}

\* C2: when several registered patterns of a method match a path, Match
\* returns the one that is static before parameter before wildcard at every
\* node, with the bindings of that pattern.
C2_StaticBeforeParamBeforeWildcard ==
    mCompiled =>
        \A method \in Methods, path \in WellFormedPaths :
            Cardinality(Candidates(method, path)) >= 2 =>
                \E i \in Best(method, path) :
                    Match(method, path) =
                        Found(regs[i], PatternBind(regs[i].pattern, path))

HasParamSeg(pattern) ==
    \E k \in 1..Len(SegsOf(pattern)) : IsParamSeg(SegsOf(pattern)[k])

EndsInWildcard(pattern) ==
    LET segs == SegsOf(pattern) IN Len(segs) > 0 /\ IsWildSeg(segs[Len(segs)])

\* C3: for a registered pattern with a :name segment, Match on a path that
\* puts a non-empty slash-free string in that segment's place returns that
\* route with params[name] equal to that string (read here for the paths on
\* which no other registered pattern takes precedence).
C3_ParamCapturesSegment ==
    mCompiled =>
        \A i \in 1..Len(regs) : \A path \in WellFormedPaths :
            (HasParamSeg(regs[i].pattern) /\ Best(regs[i].method, path) = {i}) =>
                Match(regs[i].method, path) =
                    Found(regs[i], PatternBind(regs[i].pattern, path))

\* C4: for a registered pattern ending in *name, Match on a path that extends
\* the pattern's prefix with a suffix, slashes included, returns that route
\* with params[name] equal to the whole suffix (read here for the paths on
\* which no other registered pattern takes precedence).
C4_WildcardCapturesSuffix ==
    mCompiled =>
        \A i \in 1..Len(regs) : \A path \in WellFormedPaths :
            (EndsInWildcard(regs[i].pattern) /\ Best(regs[i].method, path) = {i}) =>
                Match(regs[i].method, path) =
                    Found(regs[i], PatternBind(regs[i].pattern, path))

\* Match gives the same result for every method and path as it gave before
\* the last operation
MatchAsBefore ==
    \A method \in Methods, path \in Paths :
        Match(method, path) = MatchIn(prev.nodes, prev.trees, method, path)

TreeAsBefore == nodes = prev.nodes /\ trees = prev.trees

IsRegistered(method, pattern) ==
    \E i \in 1..Len(regs) : regs[i].method = method /\ regs[i].pattern = pattern

\* the registrations that had succeeded before the last operation
RegsBefore ==
    IF last.op \in {"Register", "registerRoute"} /\ last.err = NoErr
    THEN SubSeq(regs, 1, Len(regs) - 1)
    ELSE regs

WasRegistered(method, pattern) ==
    \E i \in 1..Len(RegsBefore) :
        RegsBefore[i].method = method /\ RegsBefore[i].pattern = pattern

\* C5: in the build phase, registering a (method, pattern) that is already
\* registered returns ErrConflictingRoutes and changes nothing: the tree is
\* the same and every Match result is the same as before the call.
C5_DuplicateRegisterRejected ==
    (/\ last.op = "Register"
     /\ ~prev.compiled
     /\ WasRegistered(last.method, last.path))
    => (/\ last.err = ErrConflictingRoutes
        /\ TreeAsBefore
        /\ MatchAsBefore)

\* a second registration of a static pattern, with another handler, was
\* rejected and the path still gives the first handler
C5_Witness ==
    /\ last.op = "Register"
    /\ last.err = ErrConflictingRoutes
    /\ ~prev.compiled
    /\ \E i \in 1..Len(regs) :
          /\ regs[i].method = last.method
          /\ regs[i].pattern = last.path
          /\ regs[i].handler # last.handler
          /\ Match(last.method, last.path) = Found(regs[i], NoParams)

\* C6: once compiled the matcher stays compiled, and every later Register
\* returns ErrRouterAlreadyCompiled and leaves the tree and the result of
\* every Match call unchanged.
C6_RegisterAfterCompileRejected ==
    prev.compiled =>
        /\ mCompiled
        /\ last.op = "Register" =>
              (/\ last.err = ErrRouterAlreadyCompiled
               /\ TreeAsBefore
               /\ MatchAsBefore)

\* a pattern that is not registered was refused after Compile, with routes
\* registered before it
C6_Witness ==
    /\ prev.compiled
    /\ last.op = "Register"
    /\ last.err = ErrRouterAlreadyCompiled
    /\ Len(regs) > 0
    /\ ~IsRegistered(last.method, last.path)

Served == last.op = "ServeHTTP"

EventsOfKind(kinds) == SelectSeq(last.resp.events, LAMBDA e : e.kind \in kinds)

Enters(mws) == [i \in 1..Len(mws) |-> Ev("enter", mws[i], "")]
Exits(mws) == [i \in 1..Len(mws) |-> Ev("exit", mws[Len(mws) + 1 - i], "")]

AllCallNext(mws) == \A i \in 1..Len(mws) : CallsNext(mws[i])

\* C7: for a matched request and global middleware m1..mn, registered in that
\* order and each calling next, ServeHTTP enters m1, ..., mn, calls the route's
\* handler exactly once, and the middleware return in the order mn, ..., m1.
C7_MiddlewareOrder ==
    (Served /\ last.found /\ AllCallNext(middleware)) =>
        EventsOfKind({"enter", "handler", "exit"}) =
            Enters(middleware) \o <<Ev("handler", last.route.handler, "")>>
                \o Exits(middleware)

\* a matched request went through two different middleware
C7_Witness ==
    /\ Served
    /\ last.found
    /\ Len(middleware) = 2
    /\ middleware[1] # middleware[2]
    /\ AllCallNext(middleware)
    /\ Len(EventsOfKind({"handler"})) = 1

NotFoundBody == <<"404 page not found", "\n">>

\* C8: a request whose method and path match no registered route gets
\* found=false from Match, and ServeHTTP answers 404 with the fixed body and
\* invokes no route handler.
C8_UnmatchedRequestGets404 ==
    (Served /\ Candidates(last.method, last.path) = {}) =>
        /\ ~last.found
        /\ last.resp.status = StatusNotFound
        /\ last.resp.body = NotFoundBody
        /\ EventsOfKind({"handler"}) = <<>>

\* C9: with a custom error handler set and an error returned by the composed
\* handler, ServeHTTP calls the custom error handler exactly once with that
\* error and writes no default 500 response.
C9_CustomErrorHandlerCalled ==
    (Served /\ last.found /\ errorHandler # 0 /\ last.err # NoErr) =>
        /\ EventsOfKind({"errorHandler"}) = <<Ev("errorHandler", errorHandler, last.err)>>
        /\ EventsOfKind({"http.Error", "defaultError"}) = <<>>
        /\ last.resp.status # StatusInternalServerError

\* C10: with no custom error handler, an error returned by the composed
\* handler gives status 500 and a body carrying the error's message; a nil
\* return gives no error response.
C10_DefaultErrorResponse ==
    (Served /\ last.found /\ errorHandler = 0) =>
        IF last.err # NoErr
        THEN /\ last.resp.status = StatusInternalServerError
             /\ \E k \in 1..Len(last.resp.body) : last.resp.body[k] = last.err
             /\ Len(EventsOfKind({"http.Error", "defaultError"})) = 1
        ELSE /\ last.resp.status # StatusInternalServerError
             /\ EventsOfKind({"http.Error", "defaultError"}) = <<>>

\* a handler returned an error through a middleware and no custom error
\* handler was set
C10_Witness ==
    /\ Served
    /\ last.found
    /\ errorHandler = 0
    /\ last.err = "boom"
    /\ Len(middleware) > 0
    /\ last.resp.status = StatusInternalServerError

-----------------------------------------------------------------------------
(* Claims about the context pool *)

\* C11: every ServeHTTP call that matches a route acquires its context from
\* the pool and releases it to the pool exactly once before it returns.
C11_ContextFromPoolReleasedOnce ==
    (last.op = "ServeHTTP" /\ last.found)
    => (last.acquired = 1 /\ last.released = 1)

IsReset(c) == c.params = {} /\ c.values = {} /\ c.req = 0 /\ c.res = 0

\* C12: after releaseContext(ctx), whatever was stored in ctx, its parameter
\* map and its value map are empty and its request and response are nil; this
\* holds from the moment the fields are reset and for as long as the context
\* stays in the pool.
C12_ReleaseResetsContext ==
    /\ last.op \in {"Clear", "releaseContext"} => IsReset(ctxs[last.ctx])
    /\ last.op = "releaseContext" => last.ctx \in idle
    /\ \A i \in idle : IsReset(ctxs[i])

\* a context in which the request had stored data has just been released
C12_Witness ==
    /\ last.op = "releaseContext"
    /\ <<last.ctx, last.req>> \in dirtied
    /\ last.ctx \in idle

\* C13: every context returned by acquireContext(w, r) has an empty parameter
\* map and an empty value map and is bound to the w and r just passed, also
\* when the object was used and released by an earlier request.
C13_AcquiredContextIsFresh ==
    \A q \in Requests :
        pc[q] = "bound" =>
            ctxs[held[q]] = [req |-> q, res |-> q, params |-> {}, values |-> {}]

\* a request has just acquired an object in which another request had
\* stored data
C13_Witness ==
    /\ last.op = "acquireContext"
    /\ pc[last.req] = "bound"
    /\ \E q \in Requests \ {last.req} : <<held[last.req], q>> \in dirtied

\* C14: under any interleaving of acquire and release by different requests,
\* no context is held by two requests at once or held while it is in the
\* pool, and a held context shows only what its holder stored in it.
C14_NoSharingBetweenRequests ==
    \A q \in Requests :
        held[q] # 0 =>
            /\ \A q2 \in Requests \ {q} : held[q2] # held[q]
            /\ held[q] \notin idle
            /\ ctxs[held[q]].req \in {0, q}
            /\ ctxs[held[q]].res \in {0, q}
            /\ \A e \in ctxs[held[q]].params \cup ctxs[held[q]].values :
                   e[2] = q

\* two requests hold contexts with their own data at the same time, one of
\* them an object the other request had used before
C14_Witness ==
    /\ \A q \in Requests : pc[q] = "used"
    /\ \E q \in Requests, q2 \in Requests :
          q # q2 /\ <<held[q], q2>> \in dirtied

-----------------------------------------------------------------------------
(* Claims about concurrent calls *)

InMatchOrAfter(p) == procs[p].kind = "serve" /\ procs[p].pc \in {"M3", "H", "done"}

\* C15: concurrent Match calls on a compiled matcher each return the route
\* and parameters the same call returns when run alone, and the parameter map
\* of each call is a new one that no other call has.
C15_ConcurrentMatchAsSequential ==
    \A p \in Procs :
        InMatchOrAfter(p) =>
            /\ mCompiled
            /\ procs[p].match = Match(procs[p].method, procs[p].path)
            /\ procs[p].match.found =>
                  /\ procs[p].map # 0
                  /\ \A p2 \in Procs \ {p} : procs[p2].map # procs[p].map

\* all goroutines are inside Match at once, each with a route found and a
\* parameter captured
C15_Witness ==
    \A p \in Procs :
        /\ procs[p].pc = "M3"
        /\ p \in mu.m.readers
        /\ procs[p].match.found
        /\ procs[p].match.params # NoParams

HoldsLock(p) ==
    \/ p \in mu.r.readers
    \/ p \in mu.m.readers
    \/ mu.r.writer = p
    \/ mu.m.writer = p

\* C16: a request that arrives once the router is compiled acquires no
\* lock, neither the router's nor the matcher's, for reading or for writing.
C16_NoLockOnceCompiled ==
    \A p \in Procs :
        (procs[p].kind = "serve" /\ procs[p].startedCompiled) => ~HoldsLock(p)

\* C17: with concurrent ServeHTTP calls on a router not yet compiled, the
\* matcher's Compile is run once, no request is matched before it has
\* completed, and a ServeHTTP that starts afterwards does no compile work.
C17_CompileOnce ==
    /\ compileCalls <= 1
    /\ \A p \in Procs :
          (procs[p].kind = "serve" /\ procs[p].pc \in {"M1", "M2", "M3", "H", "done"})
          => (mCompiled /\ rCompiled /\ compileCalls = 1)
    /\ \A p \in Procs :
          (procs[p].kind = "serve" /\ procs[p].startedCompiled)
          => (~procs[p].slow /\ procs[p].pc \notin {"E3", "E4", "C1", "C2", "E5"})

\* every goroutine found the router not compiled on its first check, and
\* all of them have served their request from a table with routes
C17_Witness ==
    /\ regs # <<>>
    /\ \A p \in Procs :
          procs[p].kind = "serve" /\ procs[p].slow /\ procs[p].pc = "done"

\* C18: when concurrent registrations of distinct routes have all returned,
\* each of those routes is in the route list and (for a static pattern, whose
\* own path is the pattern) is what Match returns for its path.
C18_ConcurrentRegistrationsKept ==
    (\A p \in Procs : procs[p].pc \in {"idle", "done"}) =>
        \A p \in Procs :
            (procs[p].kind = "register" /\ procs[p].err = NoErr) =>
                LET rt == NewRoute(procs[p].method, procs[p].path, procs[p].handler)
                IN /\ \E i \in 1..Len(routes) : routes[i] = rt
                   /\ IsStaticPattern(procs[p].path) =>
                         Match(procs[p].method, procs[p].path) = Found(rt, NoParams)

-----------------------------------------------------------------------------
(* Claims about methods and about failed registrations *)

\* the methods Match is asked about: those with routes and one never used
QueryMethods == Methods \cup {"PUT"}

HasRoutes(method) == \E i \in 1..Len(regs) : regs[i].method = method

\* C19: Match(method, path) never returns a route registered under another
\* method, a Register under one method changes no Match result of any other
\* method, and a method with no registered route gives found=false.
C19_MethodsIsolated ==
    /\ \A method \in QueryMethods, path \in Paths :
          /\ Match(method, path).found => Match(method, path).route.method = method
          /\ ~HasRoutes(method) => ~Match(method, path).found
    /\ last.op = "Register" =>
          \A method \in QueryMethods \ {last.method}, path \in Paths :
              Match(method, path) = MatchIn(prev.nodes, prev.trees, method, path)

\* the same pattern has just been registered under a second method, and
\* each method gives its own route for the path
C19_Witness ==
    /\ last.op = "Register"
    /\ last.err = NoErr
    /\ \E method \in Methods \ {last.method} :
          /\ Match(method, last.path).found
          /\ Match(last.method, last.path).found
          /\ Match(method, last.path).route.method = method
          /\ Match(last.method, last.path).route.method = last.method
          /\ Match(method, last.path).route.handler
                # Match(last.method, last.path).route.handler

\* C20: a registration through the router that fails (duplicate pattern,
\* conflict reported by the matcher, or registration after compilation)
\* leaves the router's route list and the matcher's tree as they were.
C20_FailedRegistrationChangesNothing ==
    [][(last'.op = "registerRoute" /\ last'.err # NoErr)
          => (routes' = routes /\ nodes' = nodes /\ trees' = trees)]_vars

-----------------------------------------------------------------------------
(* The matcher on patterns that meet at one node *)

ShapePatterns ==
    { <<"/", "a">>,
      <<"/", ":", "x">>,
      <<"/", ":", "y">>,
      <<"/", "*", "w">>,
      <<"/", "*", "v">>,
      <<"/", "*", "w", "/", "a">>,
      <<"/", ":", "x", "/", ":", "x", "/", "b">>,
      <<"/", ":", "x", "/", "*", "w">> }

RegisterShape(pattern) == RegisterUpTo("GET", pattern, MaxShapeRoutes)

ShapePaths ==
    { <<"/", "a">>,
      <<"/", "b">>,
      <<"/", "a", "/", "b">> }

NextShape ==
    \/ \E pattern \in ShapePatterns : RegisterShape(pattern)
    \/ Compile
    \/ \E path \in ShapePaths : MatchCall("GET", path)

SpecShape == Init /\ [][NextShape]_vars

\* a wildcard segment with one or more segments after it
WildcardNotLast(pattern) ==
    \E k \in 1..(Len(SegsOf(pattern)) - 1) : IsWildSeg(SegsOf(pattern)[k])

\* C21: Register does not succeed for a pattern in which one or more
\* segments follow a wildcard segment.
C21_WildcardOnlyLast ==
    (last.op = "Register" /\ WildcardNotLast(last.path)) => last.err # NoErr

\* the place a pattern asks for in the tree: its segments up to the first
\* wildcard, whose name does not count
RECURSIVE SlotOf(_)
SlotOf(segs) ==
    IF segs = <<>> THEN <<>>
    ELSE IF IsWildSeg(Head(segs)) THEN << <<"*">> >>
    ELSE <<Head(segs)>> \o SlotOf(Tail(segs))

SameSlot(p, q) == SlotOf(SegsOf(p)) = SlotOf(SegsOf(q))

\* C22: in the build phase, a Register that needs the terminal route of a
\* node that has one, or a wildcard child where there is one (whatever its
\* name), returns ErrConflictingRoutes; and a Register that returns
\* ErrConflictingRoutes adds no node, no route and no wildcard.
C22_ConflictRejectedTreeUnchanged ==
    (last.op = "Register" /\ ~prev.compiled) =>
        /\ (\E i \in 1..Len(RegsBefore) :
               /\ RegsBefore[i].method = last.method
               /\ SameSlot(RegsBefore[i].pattern, last.path))
           => last.err = ErrConflictingRoutes
        /\ last.err = ErrConflictingRoutes => TreeAsBefore

\* a wildcard under another name than the registered one was rejected
C22_Witness ==
    /\ last.op = "Register"
    /\ ~prev.compiled
    /\ last.err = ErrConflictingRoutes
    /\ EndsInWildcard(last.path)
    /\ ~IsRegistered(last.method, last.path)
    /\ \E i \in 1..Len(regs) : SameSlot(regs[i].pattern, last.path)

\* the table built by registering the routes rs in the order given by perm,
\* and compiled
RECURSIVE BuildFrom(_, _, _, _)
BuildFrom(rs, perm, k, st) ==
    IF k > Len(rs) THEN st
    ELSE LET r == rs[perm[k]]
             res == MatcherRegister(st.nodes, st.trees, FALSE,
                                    r.method, r.pattern, r.handler)
         IN BuildFrom(rs, perm, k + 1,
                      [nodes |-> res.nodes, trees |-> res.trees,
                       ok |-> st.ok /\ res.err = NoErr])

BuildCompiled(rs, perm) ==
    LET st == BuildFrom(rs, perm, 1,
                        [nodes |-> <<>>, trees |-> [m \in Methods |-> 0], ok |-> TRUE])
    IN [st EXCEPT !.nodes = MatcherCompile(st.nodes, st.trees, FALSE)]

Orders(n) ==
    {f \in [1..n -> 1..n] : \A i \in 1..n, j \in 1..n : f[i] = f[j] => i = j}

\* C23: for the set of routes registered, every registration succeeds and,
\* after Compile, Match gives the same result for every method and path in
\* whatever order the routes are registered.
C23_OrderIndependent ==
    mCompiled =>
        \A perm \in Orders(Len(regs)) :
            LET b == BuildCompiled(regs, perm)
            IN /\ b.ok
               /\ \A method \in Methods, path \in Paths :
                     MatchIn(b.nodes, b.trees, method, path) = Match(method, path)

\* C24: a Compile on a compiled matcher returns nil and changes neither the
\* tree, the order of the children included, nor the compiled flag.
C24_CompileIdempotent ==
    (last.op = "Compile" /\ prev.compiled) =>
        /\ last.err = NoErr
        /\ TreeAsBefore
        /\ mCompiled

\* a second Compile of a tree whose root has children of equal priority
C24_Witness ==
    /\ last.op = "Compile"
    /\ prev.compiled
    /\ trees["GET"] # 0
    /\ \E i \in 1..Len(nodes[trees["GET"]].children) :
          \E j \in 1..Len(nodes[trees["GET"]].children) :
             /\ i # j
             /\ nodes[nodes[trees["GET"]].children[i]].priority
                  = nodes[nodes[trees["GET"]].children[j]].priority

\* C25: after Compile every static child comes before every parameter child
\* at each node, and children of equal priority are in the order in which
\* they were inserted (a later node has a higher index in the heap).
C25_StableSort ==
    mCompiled =>
        \A n \in 1..Len(nodes) :
            LET cs == nodes[n].children
            IN \A i \in 1..Len(cs), j \in 1..Len(cs) :
                  i < j =>
                     /\ nodes[cs[i]].priority >= nodes[cs[j]].priority
                     /\ nodes[cs[i]].priority = nodes[cs[j]].priority
                           => cs[i] < cs[j]

ParamNames(pattern) ==
    {From(SegsOf(pattern)[k], 1) :
        k \in {i \in 1..Len(SegsOf(pattern)) :
                 IsParamSeg(SegsOf(pattern)[i]) \/ IsWildSeg(SegsOf(pattern)[i])}}

\* C29: when Match finds a route, the parameter map has exactly one binding
\* for each parameter and wildcard name of its pattern and no other: a
\* binding undone on an abandoned branch takes nothing away from the walk
\* that succeeds.
C29_ParamsOfSuccessfulWalk ==
    \A method \in Methods, path \in Paths :
        LET m == Match(method, path)
        IN m.found =>
              /\ {pr[1] : pr \in m.params} = ParamNames(m.route.pattern)
              /\ Cardinality(m.params) = Cardinality(ParamNames(m.route.pattern))

\* ---------------------------------------------------------------------------
\* Middleware that stops the chain
\* ---------------------------------------------------------------------------

\* the position of the first middleware that does not call next
FirstStop(mws) ==
    CHOOSE k \in 1..Len(mws) :
        /\ ~CallsNext(mws[k])
        /\ \A i \in 1..(k - 1) : CallsNext(mws[i])

\* C26: when a middleware returns without calling next, no later middleware
\* and no route handler runs for that request; the middleware before it are
\* entered in order and return in reverse order, and the answer is the one
\* the stopping middleware wrote.
C26_StoppedChain ==
    (Served /\ last.found /\ ~AllCallNext(middleware)) =>
        LET outer == SubSeq(middleware, 1, FirstStop(middleware))
        IN /\ EventsOfKind({"enter", "handler", "exit"}) =
                 Enters(outer) \o Exits(outer)
           /\ last.resp.status = StatusNoContent
           /\ last.err = NoErr

\* a matched request was stopped by the first of two middleware
C26_Witness ==
    /\ Served
    /\ last.found
    /\ Len(middleware) = 2
    /\ ~CallsNext(middleware[1])
    /\ CallsNext(middleware[2])
    /\ EventsOfKind({"handler"}) = <<>>

\* ---------------------------------------------------------------------------
\* The router with Recovery and a route group
\* ---------------------------------------------------------------------------

ChainHandlers == {1, PanicHandler}
ChainMiddlewares == {Recovery}
GroupMiddlewares == {2}
ChainPatterns == { <<"/", "b">> }
ChainPaths == { <<"/", "b">>, <<"/", "a", "/", "b">>, <<"/", "a">> }

\* group := router.Group("/a")
GroupPrefix == <<"/", "a">>

\* group.GET(pattern, handler)
routerGroupGET(pattern, handler) ==
    registerRoute("GET", GroupPrefix \o pattern, handler)

\* group.Use(m)
routerGroupUse(m) == Use(m)

NextChain ==
    \/ \E pattern \in ChainPatterns, handler \in ChainHandlers :
          registerRoute("GET", pattern, handler)
    \/ \E pattern \in ChainPatterns, handler \in ChainHandlers :
          routerGroupGET(pattern, handler)
    \/ \E m \in ChainMiddlewares : Use(m)
    \/ \E m \in GroupMiddlewares : routerGroupUse(m)
    \/ \E path \in ChainPaths : ServeHTTP("GET", path)

SpecChain == Init /\ [][NextChain]_vars

\* C27: the panic of a route handler leaves ServeHTTP when no middleware
\* recovers it; with Recovery in the chain the panic is caught, a 500 answer
\* is written and ServeHTTP returns normally.
C27_PanicAndRecovery ==
    (Served /\ last.found /\ last.route.handler = PanicHandler
        /\ AllCallNext(middleware)) =>
        IF \E i \in 1..Len(middleware) : middleware[i] = Recovery
        THEN /\ last.panic = NoErr
             /\ last.err = NoErr
             /\ last.resp.status = StatusInternalServerError
             /\ last.resp.body = <<HandlerPanic(PanicHandler)>>
        ELSE /\ last.panic = HandlerPanic(PanicHandler)
             /\ last.resp.status = 0

\* the panicking handler ran under Recovery and another middleware
C27_Witness ==
    /\ Served
    /\ last.found
    /\ last.route.handler = PanicHandler
    /\ Len(middleware) = 2
    /\ \E i \in 1..2 : middleware[i] = Recovery
    /\ last.resp.status = StatusInternalServerError

\* C28: middleware added through a group's Use runs for the routes of that
\* group only: a request matched by a route registered outside the group
\* does not enter it.
C28_GroupMiddlewareScoped ==
    (Served /\ last.found /\ ~HasPrefix(last.route.pattern, GroupPrefix)) =>
        \A i \in 1..Len(last.resp.events) :
            last.resp.events[i].kind = "enter"
                => last.resp.events[i].id \notin GroupMiddlewares

\* C30: search follows a static child only when the child's label starts the
\* remaining path and is followed there by "/" or by the end of the path, so
\* a path that merely extends a label (/ba for /b, /ab for /a/b) is not
\* matched: with static routes only, Match finds a route exactly for the
\* registered patterns, with or without one trailing slash.
C30_StaticLabelBoundary ==
    \A path \in Paths :
        LET m == Match("GET", path)
        IN /\ m.found => (path = m.route.pattern \/ path = m.route.pattern \o <<"/">>)
           /\ m.found <=>
                 \E i \in 1..Len(regs) :
                     path = regs[i].pattern \/ path = regs[i].pattern \o <<"/">>

\* /b and /a/b are registered; /a/b is found, /ba and /ab are not
C30_Witness ==
    /\ Len(regs) = 2
    /\ Match("GET", <<"/", "a", "/", "b">>).found
    /\ Match("GET", <<"/", "b">>).found
    /\ ~Match("GET", <<"/", "b", "a">>).found
    /\ ~Match("GET", <<"/", "a", "b">>).found

\* ---------------------------------------------------------------------------
\* Walks that end short of a route
\* ---------------------------------------------------------------------------

UsersId == <<"/", "a", "/", ":", "x">>

OnlyUsersId(method) ==
    /\ \E i \in 1..Len(regs) : regs[i].method = method
    /\ \A i \in 1..Len(regs) : regs[i].method = method => regs[i].pattern = UsersId

\* C31: a walk that ends at a node without a terminal route is not a match
\* and a parameter never binds an empty segment: every route Match returns
\* was registered, every parameter value it returns is non-empty, and with
\* /a/:x alone under a method both /a and /a/ give found=false.
C31_NoRouteNoMatch ==
    \A method \in Methods :
        /\ \A path \in Paths :
              LET m == Match(method, path)
              IN m.found =>
                    /\ \E i \in 1..Len(regs) : regs[i] = m.route
                    /\ \A pr \in m.params : pr[2] # <<>>
        /\ OnlyUsersId(method) =>
              /\ ~Match(method, <<"/", "a">>).found
              /\ ~Match(method, <<"/", "a", "/">>).found
              /\ ~Match(method, <<"/", "a", "/", "/">>).found

\* /a/:x is the only GET route: /a/b is found with x = b, /a and /a/ are not
C31_Witness ==
    /\ OnlyUsersId("GET")
    /\ Match("GET", <<"/", "a", "/", "b">>).found
    /\ Match("GET", <<"/", "a", "/", "b">>).params = {<<<<"x">>, <<"b">>>>}
    /\ ~Match("GET", <<"/", "a">>).found
    /\ ~Match("GET", <<"/", "a", "/">>).found

\* ---------------------------------------------------------------------------
\* The shape of the method trees
\* ---------------------------------------------------------------------------

StaticChildren(n) ==
    {i \in 1..Len(nodes[n].children) :
        nodes[nodes[n].children[i]].nType = staticNode}

\* the nodes that refer to route r, as a terminal route
Holders(r) == {n \in 1..Len(nodes) : nodes[n].route = r}

\* C32: after any sequence of Register calls and after Compile, static
\* children of one node have mutually distinct labels, a wildcard child holds
\* a route and has neither children nor a wildcard of its own, children are
\* never wildcard nodes, and every registered route is the terminal route of
\* exactly one node (so no node holds a route that was not registered).
C32_TreeInvariants ==
    /\ \A n \in 1..Len(nodes) :
          /\ \A i \in StaticChildren(n), j \in StaticChildren(n) :
                i # j => nodes[nodes[n].children[i]].path
                            # nodes[nodes[n].children[j]].path
          /\ \A i \in 1..Len(nodes[n].children) :
                nodes[nodes[n].children[i]].nType # wildcardNode
          /\ nodes[n].wildcard # 0 =>
                LET w == nodes[nodes[n].wildcard]
                IN /\ w.nType = wildcardNode
                   /\ w.route # NoRoute
                   /\ w.children = <<>>
                   /\ w.wildcard = 0
          /\ nodes[n].route # NoRoute =>
                \E i \in 1..Len(regs) : regs[i] = nodes[n].route
    /\ \A i \in 1..Len(regs) : Cardinality(Holders(regs[i])) = 1

\* a compiled tree with two static children under one node and a failed
\* registration behind it
C32_Witness ==
    /\ mCompiled
    /\ last.op = "Register"
    /\ last.err # NoErr
    /\ Len(regs) = 2
    /\ \E n \in 1..Len(nodes) : Cardinality(StaticChildren(n)) = 2

\* ---------------------------------------------------------------------------
\* Match as a read
\* ---------------------------------------------------------------------------

\* C33: Match changes nothing in the matcher: the method trees, every node
\* with its children, their order and its route, and the compiled flag are
\* after the call what they were before it, whether or not a route is found.
C33_MatchChangesNothing ==
    last.op = "Match" =>
        /\ nodes = prev.nodes
        /\ trees = prev.trees
        /\ mCompiled = prev.compiled

\* a Match that found a route through a parameter, in a tree not yet
\* compiled whose root has a parameter child before a static one
C33_Witness ==
    /\ last.op = "Match"
    /\ last.found
    /\ last.params # NoParams
    /\ ~mCompiled
    /\ Len(nodes[trees["GET"]].children) = 2
    /\ nodes[nodes[trees["GET"]].children[1]].nType = paramNode
    /\ nodes[nodes[trees["GET"]].children[2]].nType = staticNode

\* a Match that found nothing
C33_WitnessNotFound ==
    last.op = "Match" /\ ~last.found /\ Len(regs) > 0

\* ---------------------------------------------------------------------------
\* Trailing slashes, compilation and reachability
\* ---------------------------------------------------------------------------

\* a static pattern other than "/" that does not itself end in a slash
PlainStatic(pattern) ==
    /\ IsStaticPattern(pattern)
    /\ Len(pattern) > 1
    /\ pattern[Len(pattern)] # "/"

\* C34: a trailing slash on the request path is treated as no trailing
\* slash: for a registered static pattern P (with a last segment that is not
\* empty), Match on P followed by "/" returns the route of P.
C34_TrailingSlashSameRoute ==
    \A i \in 1..Len(regs) :
        PlainStatic(regs[i].pattern) =>
            LET m == Match(regs[i].method, regs[i].pattern \o <<"/">>)
            IN m.found /\ m.route = regs[i]

\* C35: Compile changes no lookup result: for every method and path, Match
\* on the compiled trees returns the route and the parameters that Match
\* returned on the trees as they were before Compile.
C35_CompilePreservesMatch ==
    (last.op = "Compile" /\ ~prev.compiled) =>
        \A method \in Methods, path \in Paths :
            Match(method, path) = MatchIn(prev.nodes, prev.trees, method, path)

\* a request path written after a pattern: "a" in the place of every
\* parameter and wildcard segment
RECURSIVE InstanceOf(_)
InstanceOf(segs) ==
    IF segs = <<>> THEN <<>>
    ELSE <<"/">>
            \o (IF IsParamSeg(Head(segs)) \/ IsWildSeg(Head(segs))
                THEN <<"a">> ELSE Head(segs))
            \o InstanceOf(Tail(segs))

ProbePaths(pattern) == Paths \cup {InstanceOf(SegsOf(pattern))}

\* C36: every route whose Register call succeeded is reachable: some request
\* path makes Match return it.
C36_RegisteredRouteReachable ==
    \A i \in 1..Len(regs) :
        \E path \in ProbePaths(regs[i].pattern) :
            LET m == Match(regs[i].method, path)
            IN m.found /\ m.route = regs[i]

\* ---------------------------------------------------------------------------
\* Unmatched requests and the middleware list after compilation
\* ---------------------------------------------------------------------------

\* C38: when no route matches a request no middleware runs for it: ServeHTTP
\* writes the 404 answer of http.NotFound and returns; nothing is entered,
\* handled, left or recovered.
C38_UnmatchedSkipsMiddleware ==
    (Served /\ ~last.found) =>
        /\ last.resp = HttpNotFound(NoResp)
        /\ EventsOfKind({"enter", "handler", "exit", "recover"}) = <<>>
        /\ last.err = NoErr
        /\ last.panic = NoErr

\* a request that no route matched, on a router with routes and two
\* middleware
C38_Witness ==
    /\ Served
    /\ ~last.found
    /\ Len(middleware) = 2
    /\ Len(regs) > 0
    /\ last.resp.status = StatusNotFound

\* C39: once ServeHTTP has compiled the router the middleware list never
\* changes again and the router stays compiled: every later Use panics and
\* appends nothing.
C39_MiddlewareFrozenAfterCompile ==
    [][rCompiled =>
          /\ middleware' = middleware
          /\ rCompiled'
          /\ last'.op = "Use" => last'.err = PanicCompiledUse]_vars

\* Use has just panicked on a compiled router whose list had room for it
C39_Witness ==
    /\ rCompiled
    /\ last.op = "Use"
    /\ last.err = PanicCompiledUse
    /\ Len(middleware) < MaxMiddleware
    /\ \A i \in 1..Len(middleware) : middleware[i] # last.handler

\* ---------------------------------------------------------------------------
\* Locks of the router and of the matcher
\* ---------------------------------------------------------------------------

Busy(p) == procs[p].pc \notin {"idle", "done"}

\* the lock a goroutine asks for at its next step, if any
WantsRLock(p, l) ==
    \/ l = "r" /\ At(p, "E1")
    \/ l = "m" /\ At(p, "M1")

WantsLock(p, l) ==
    \/ l = "r" /\ procs[p].pc \in {"E3", "G1", "U1"}
    \/ l = "m" /\ procs[p].pc \in {"C1", "G2"}

HoldsOne(p, l) == p \in mu[l].readers \/ mu[l].writer = p

\* a goroutine that cannot take its next step.  A reader is also taken to be
\* held up by a writer that is waiting, as sync.RWMutex does once Lock has
\* been called.
Blocked(p) ==
    \E l \in {"r", "m"} :
        \/ WantsLock(p, l) /\ ~CanLock(mu[l])
        \/ WantsRLock(p, l)
              /\ (~CanRLock(mu[l]) \/ \E q \in Procs \ {p} : WantsLock(q, l))

\* C37: no interleaving of registrations, Use calls and ServeHTTP calls
\* deadlocks: while a goroutine is inside a call some goroutine can take a
\* step; the router's lock is never asked for by a goroutine that holds the
\* matcher's lock, no goroutine asks for a lock it holds, and ensureCompiled
\* holds no read lock when it asks for the write lock.
C37_NoDeadlock ==
    /\ (\E p \in Procs : Busy(p)) => \E p \in Procs : Busy(p) /\ ~Blocked(p)
    /\ \A p \in Procs :
          /\ HoldsOne(p, "m") => ~(WantsLock(p, "r") \/ WantsRLock(p, "r"))
          /\ \A l \in {"r", "m"} :
                HoldsOne(p, l) => ~(WantsLock(p, l) \/ WantsRLock(p, l))
          /\ At(p, "E3") => ~HoldsOne(p, "r")

\* one goroutine holds the router's write lock inside ensureCompiled and is
\* about to compile, while the other waits for that lock in Use
C37_Witness ==
    \E p \in Procs, q \in Procs :
        /\ At(p, "C1")
        /\ mu.r.writer = p
        /\ At(q, "U1")
        /\ Blocked(q)

\* ---------------------------------------------------------------------------
\* The length of the walk
\* ---------------------------------------------------------------------------

MaxWalkRoutes == 3

WalkPatterns ==
    { <<"/", "/", "a">>,
      <<"/", "a", "/", "/", "b">>,
      <<"/", "a", "/", "b">>,
      <<"/", ":", "x">>,
      <<"/", ":", "x", "/", "a">>,
      <<"/", "*", "w">> }

RegisterWalk(pattern) == RegisterUpTo("GET", pattern, MaxWalkRoutes)

NextWalk ==
    \/ \E pattern \in WalkPatterns : RegisterWalk(pattern)
    \/ Compile

SpecWalk == Init /\ [][NextWalk]_vars

\* the paths search is called with: request paths without their first slash
WalkRests == {TrimSlash(path) : path \in Paths}

SetMax(S) == CHOOSE x \in S : \A y \in S : y <= x

\* the number of nested recursive calls below search(node n, path)
RECURSIVE WalkDepth(_, _, _)
WalkDepth(ns, n, path) ==
    LET calls == searchCalls(ns, n, path)
    IN IF calls = {} THEN 0
       ELSE 1 + SetMax({WalkDepth(ns, c.node, c.path) : c \in calls})

\* C40: Match terminates for every request path and every tree Register can
\* build: each recursive call of search is made on a node of the tree with a
\* strictly shorter remaining path, so the walk is never deeper than the
\* path is long.
C40_SearchTerminates ==
    /\ \A n \in 1..Len(nodes), path \in WalkRests :
          \A c \in searchCalls(nodes, n, path) :
              /\ c.node \in 1..Len(nodes)
              /\ Len(c.path) < Len(path)
    /\ trees["GET"] # 0 =>
          \A path \in WalkRests :
              WalkDepth(nodes, trees["GET"], path) <= Len(path)

\* the root has a static child with an empty label, which the walk for //a
\* goes through
C40_Witness ==
    /\ trees["GET"] # 0
    /\ \E i \in 1..Len(nodes[trees["GET"]].children) :
          LET c == nodes[nodes[trees["GET"]].children[i]]
          IN c.nType = staticNode /\ c.path = <<>>
    /\ Match("GET", <<"/", "/", "a">>).found
    /\ WalkDepth(nodes, trees["GET"], <<"/", "a">>) = 2

====
